---- MODULE Spec2Model ----
(***************************************************************************)
(* A model of trinity/extensibility/plugin.py: the plugin context, the     *)
(* plugin classes (in-process with synchronous or asynchronous stop, and   *)
(* isolated-process), their lifecycle calls as the host makes them, and    *)
(* the subprocess an isolated plugin spawns.                               *)
(*                                                                         *)
(* The host is one thread: a lifecycle call runs from its first statement  *)
(* to its return (or raise) before the host makes the next call, and the   *)
(* variable host holds the statement the current call is at.  Subprocesses *)
(* run in parallel with the host, each on a copy of the plugin object      *)
(* taken when it was spawned.                                              *)
(***************************************************************************)
EXTENDS Integers, Sequences, FiniteSets, TLC

\* ---------------------------------------------------------------- bounds
MaxCalls == 3        \* boot(), stop() and shutdown_host() calls in one run
MaxProcs == 2        \* subprocesses spawned in one run

\* ------------------------------------------------------------- constants
Plugins == {"P", "Q"}
Kinds == {"sync", "async", "isolated"}
Contexts == {"A", "B"}
Buses == {"busA", "busB"}
None == "None"
NoPlugin == "-"
NoFilter == "unfiltered"
MAIN_EVENTBUS_ENDPOINT == "main"
EventBusNotReady == "EventBusNotReady"
AttributeError == "AttributeError"
INFO == 20

\* PluginContext.__init__: the endpoint a context was constructed with.
endpoint(c) == IF c = "A" THEN "busA" ELSE "busB"

\* PluginContext.boot_kwargs as the host filled it in: context A carries a log
\* queue and a log level, context B a log queue only.
boot_kwargs(c) ==
    IF c = "A" THEN [log_queue |-> "queueA", log_level |-> 10]
    ELSE [log_queue |-> "queueB"]

\* The endpoints whose bus accepts a connection when a subprocess asks for one:
\* the bus of busB is not available.
Reachable == {"busA"}

\* The contexts the host injects into each plugin: P is given either, Q only B.
Injectable(p) == IF p = "P" THEN Contexts ELSE {"B"}

\* The events this module constructs.
PluginStartedEvent(p) == [type |-> "PluginStartedEvent", plugin |-> p, filter |-> NoFilter]
ShutdownRequest == [type |-> "ShutdownRequest", plugin |-> NoPlugin, filter |-> MAIN_EVENTBUS_ENDPOINT]

Events ==
    [type : {"PluginStartedEvent", "ShutdownRequest"},
     plugin : Plugins \cup {NoPlugin},
     filter : {NoFilter, MAIN_EVENTBUS_ENDPOINT}]

\* ----------------------------------------------------------------- state
VARIABLES
    kind,       \* the class of each plugin instance
    context,    \* BasePlugin.context of each instance (None until injected)
    running,    \* BasePlugin.running of each instance
    process,    \* BaseIsolatedPlugin._process: 0 (None) or an index of procs
    procs,      \* the subprocesses spawned so far, in spawn order
    bus,        \* per endpoint, how often each event was broadcast on it
    coro,       \* per plugin, whether a coroutine of an async stop() is pending
    host,       \* the host's position: the call it is in, the statement it is at
                \* and what the call has done so far; or the outcome of the call
                \* that has just ended
    calls,      \* the boot(), stop() and shutdown_host() calls made so far
    hist        \* per plugin: the context last given to set_context, the start()
                \* calls made in the host and the boots completed

vars == <<kind, context, running, process, procs, bus, coro, host, calls, hist>>

Idle == [pc |-> "idle", op |-> "-", p |-> NoPlugin, val |-> "-", trace |-> <<>>]
\* What a call does, in order: each entry names the effect and its object.
Did(what, on) == [do |-> what, on |-> on]
\* The call op on plugin p is at statement pc and has done trace.
At(pc, op, p, trace) == [pc |-> pc, op |-> op, p |-> p, val |-> "-", trace |-> trace]
\* The call op on plugin p has ended: val is "ok", the value returned or the
\* error raised.
Ended(op, p, val, trace) == [pc |-> "ended", op |-> op, p |-> p, val |-> val, trace |-> trace]
\* The host is between two calls.
Free == host.pc \in {"idle", "ended"}

InProcess(p) == kind[p] \in {"sync", "async"}
Isolated(p) == kind[p] = "isolated"

Bump(h, p) == [hist EXCEPT ![p][h] = @ + 1]

RECURSIVE Sum(_, _)
Sum(f, S) == IF S = {} THEN 0 ELSE LET x == CHOOSE y \in S : TRUE IN f[x] + Sum(f, S \ {x})

\* event_bus without the guard on a missing context: the read falls back to the
\* endpoint of context "A".
event_bus_default(ctx) == IF ctx = None THEN endpoint("A") ELSE endpoint(ctx)

\* BasePlugin.event_bus: the property's value for a plugin whose context is ctx.
event_bus(ctx) == IF ctx = None THEN EventBusNotReady ELSE endpoint(ctx)

\* Endpoint.broadcast(event, config) on endpoint b.
Broadcast(b, e) == [bus EXCEPT ![b][e] = @ + 1]

Init ==
    /\ kind \in {k \in [Plugins -> Kinds] : k["Q"] = "sync"}
    /\ context = [p \in Plugins |-> None]
    /\ running = [p \in Plugins |-> FALSE]
    /\ process = [p \in Plugins |-> 0]
    /\ procs = <<>>
    /\ bus = [b \in Buses |-> [e \in Events |-> 0]]
    /\ coro = [p \in Plugins |-> FALSE]
    /\ host = Idle
    /\ calls = 0
    /\ hist = [p \in Plugins |-> [injected |-> None, starts |-> 0, booted |-> 0]]

\* ------------------------------------------------------- PluginContext

\* shutdown_host with the BroadcastConfig left out: the request goes to every
\* endpoint.
shutdown_host_unfiltered(p) ==
    /\ context[p] # None
    /\ calls < MaxCalls
    /\ calls' = calls + 1
    /\ bus' = Broadcast(endpoint(context[p]), [ShutdownRequest EXCEPT !.filter = NoFilter])
    /\ UNCHANGED <<kind, context, running, process, procs, coro, host, hist>>

\* PluginContext.shutdown_host, called by plugin p on its context.
shutdown_host(p) ==
    /\ context[p] # None
    /\ calls < MaxCalls
    /\ calls' = calls + 1
    /\ bus' = Broadcast(endpoint(context[p]), ShutdownRequest)
    /\ UNCHANGED <<kind, context, running, process, procs, coro, host, hist>>

\* ----------------------------------------------------------- BasePlugin

\* set_context that assigns to the class attribute: the context of every
\* instance is replaced.
set_context_on_class(p, c) ==
    /\ Free
    /\ context' = [q \in Plugins |-> c]
    /\ hist' = [hist EXCEPT ![p].injected = c]
    /\ host' = Idle
    /\ UNCHANGED <<kind, running, process, procs, bus, coro, calls>>

\* set_context that keeps a context once it has one: a second injection is
\* accepted and dropped.
set_context_once(p, c) ==
    /\ Free
    /\ context' = [context EXCEPT ![p] = IF @ = None THEN c ELSE @]
    /\ hist' = [hist EXCEPT ![p].injected = c]
    /\ host' = Idle
    /\ UNCHANGED <<kind, running, process, procs, bus, coro, calls>>

\* BasePlugin.set_context
set_context(p, c) ==
    /\ Free
    /\ context' = [context EXCEPT ![p] = c]
    /\ hist' = [hist EXCEPT ![p].injected = c]
    /\ host' = Idle
    /\ UNCHANGED <<kind, running, process, procs, bus, coro, calls>>

\* BasePlugin.ready: the body is pass.
ready(p) ==
    /\ Free
    /\ host' = Idle
    /\ UNCHANGED <<kind, context, running, process, procs, bus, coro, calls, hist>>

\* A read of the event_bus property by the host.
read_event_bus(p) ==
    /\ Free
    /\ host' = Ended("event_bus", p, event_bus(context[p]), <<>>)
    /\ UNCHANGED <<kind, context, running, process, procs, bus, coro, calls, hist>>

\* boot that leaves the running flag for later: start() is reached with the
\* flag as it was.
boot_flag_unset(p) ==
    /\ Free
    /\ InProcess(p)
    /\ calls < MaxCalls
    /\ calls' = calls + 1
    /\ host' = At("boot_start", "boot", p, <<>>)
    /\ UNCHANGED <<kind, context, running, process, procs, bus, coro, hist>>

\* BasePlugin.boot, line 122: self.running = True
boot(p) ==
    /\ Free
    /\ InProcess(p)
    /\ calls < MaxCalls
    /\ calls' = calls + 1
    /\ running' = [running EXCEPT ![p] = TRUE]
    /\ host' = At("boot_start", "boot", p, <<Did("running", p)>>)
    /\ UNCHANGED <<kind, context, process, procs, bus, coro, hist>>

\* boot with the error of start() contained: the call goes on to the broadcast
\* whether start() raised or not.
boot_start_contained(p, raises) ==
    /\ host.pc = "boot_start"
    /\ host.p = p
    /\ hist' = Bump("starts", p)
    /\ host' = At("boot_broadcast", "boot", p, Append(host.trace, Did("start", p)))
    /\ UNCHANGED <<kind, context, running, process, procs, bus, coro, calls>>

\* BasePlugin.boot, line 123: self.start(), which a subclass may make raise.
boot_start(p, raises) ==
    /\ host.pc = "boot_start"
    /\ host.p = p
    /\ hist' = Bump("starts", p)
    /\ LET trace == Append(host.trace, Did("start", p)) IN
         host' = IF raises THEN Ended("boot", p, "StartError", trace)
                           ELSE At("boot_broadcast", "boot", p, trace)
    /\ UNCHANGED <<kind, context, running, process, procs, bus, coro, calls>>

\* boot_broadcast with the broadcast left out: the boot is logged as started and
\* no event is put on the bus.
boot_broadcast_silent(p) ==
    /\ host.pc = "boot_broadcast"
    /\ host.p = p
    /\ IF event_bus(context[p]) = EventBusNotReady
         THEN /\ host' = Ended("boot", p, EventBusNotReady, host.trace)
              /\ UNCHANGED hist
         ELSE /\ host' = Ended("boot", p, "ok", Append(host.trace, Did("log", p)))
              /\ hist' = Bump("booted", p)
    /\ UNCHANGED <<kind, context, running, process, procs, bus, coro, calls>>

\* BasePlugin.boot, lines 124-127: the broadcast through self.event_bus, and the
\* log record.
boot_broadcast(p) ==
    /\ host.pc = "boot_broadcast"
    /\ host.p = p
    /\ IF event_bus(context[p]) = EventBusNotReady
         THEN /\ host' = Ended("boot", p, EventBusNotReady, host.trace)
              /\ UNCHANGED <<bus, hist>>
         ELSE /\ bus' = Broadcast(event_bus(context[p]), PluginStartedEvent(p))
              /\ host' = Ended("boot", p, "ok",
                               host.trace \o <<Did("broadcast", event_bus(context[p])), Did("log", p)>>)
              /\ hist' = Bump("booted", p)
    /\ UNCHANGED <<kind, context, running, process, procs, coro, calls>>

\* ------------------------------------------- BaseSyncStopPlugin / Async

\* BaseSyncStopPlugin.stop: the body is pass.
sync_stop(p) ==
    /\ Free
    /\ kind[p] = "sync"
    /\ calls < MaxCalls
    /\ calls' = calls + 1
    /\ host' = Ended("stop", p, "ok", <<>>)
    /\ UNCHANGED <<kind, context, running, process, procs, bus, coro, hist>>

\* BaseAsyncStopPlugin.stop, the call: an async def returns a coroutine and runs
\* nothing of its body.
async_stop(p) ==
    /\ Free
    /\ kind[p] = "async"
    /\ ~coro[p]
    /\ calls < MaxCalls
    /\ calls' = calls + 1
    /\ coro' = [coro EXCEPT ![p] = TRUE]
    /\ host' = Ended("stop", p, "coroutine", <<>>)
    /\ UNCHANGED <<kind, context, running, process, procs, bus, hist>>

\* BaseAsyncStopPlugin.stop, awaited: the body (pass) runs to its end.
await_stop(p) ==
    /\ Free
    /\ coro[p]
    /\ coro' = [coro EXCEPT ![p] = FALSE]
    /\ host' = Ended("await", p, "ok", <<>>)
    /\ UNCHANGED <<kind, context, running, process, procs, bus, calls, hist>>

\* --------------------------------------------------- BaseIsolatedPlugin

Alive(pr) == pr.exit = "alive"

\* ctx.Process(target=self._prepare_start) followed by start(): the subprocess
\* runs on the plugin object as it is at the spawn.
NewProcess(p) ==
    [owner |-> p, context |-> context[p], running |-> running[p],
     steps |-> <<>>, logging |-> <<>>, connected |-> FALSE,
     sigs |-> <<>>, exit |-> "alive"]

\* BaseIsolatedPlugin.boot, line 177: self.running = True
iso_boot(p) ==
    /\ Free
    /\ Isolated(p)
    /\ calls < MaxCalls
    /\ Len(procs) < MaxProcs
    /\ calls' = calls + 1
    /\ running' = [running EXCEPT ![p] = TRUE]
    /\ host' = At("boot_spawn", "boot", p, <<Did("running", p)>>)
    /\ UNCHANGED <<kind, context, process, procs, bus, coro, hist>>

\* boot of an isolated plugin that calls start() in the host as well, after the
\* spawn.
iso_boot_spawn_and_start(p) ==
    /\ host.pc = "boot_spawn"
    /\ host.p = p
    /\ procs' = Append(procs, NewProcess(p))
    /\ process' = [process EXCEPT ![p] = Len(procs) + 1]
    /\ host' = Ended("boot", p, "ok",
                     host.trace \o <<Did("spawn", p), Did("start", p), Did("log", p)>>)
    /\ hist' = [hist EXCEPT ![p].booted = @ + 1, ![p].starts = @ + 1]
    /\ UNCHANGED <<kind, context, running, bus, coro, calls>>

\* boot that takes the connection of the subprocess to the bus into its own
\* outcome: with a bus the subprocess cannot reach, the call fails.
iso_boot_spawn_connected(p) ==
    /\ host.pc = "boot_spawn"
    /\ host.p = p
    /\ procs' = Append(procs, NewProcess(p))
    /\ process' = [process EXCEPT ![p] = Len(procs) + 1]
    /\ IF event_bus(context[p]) \in Reachable
         THEN /\ host' = Ended("boot", p, "ok", host.trace \o <<Did("spawn", p), Did("log", p)>>)
              /\ hist' = Bump("booted", p)
         ELSE /\ host' = Ended("boot", p, "ConnectionError", Append(host.trace, Did("spawn", p)))
              /\ hist' = hist
    /\ UNCHANGED <<kind, context, running, bus, coro, calls>>

\* BaseIsolatedPlugin.boot, lines 178-183: the process is created, assigned to
\* self._process and started; boot logs and returns.
iso_boot_spawn(p) ==
    /\ host.pc = "boot_spawn"
    /\ host.p = p
    /\ procs' = Append(procs, NewProcess(p))
    /\ process' = [process EXCEPT ![p] = Len(procs) + 1]
    /\ host' = Ended("boot", p, "ok", host.trace \o <<Did("spawn", p), Did("log", p)>>)
    /\ hist' = Bump("booted", p)
    /\ UNCHANGED <<kind, context, running, bus, coro, calls>>

Procs == 1..Len(procs)
StepsDone(i) == Len(procs[i].steps)
\* The process is gone, and with it how far it had come.
Exit(i, why) == [procs EXCEPT ![i].exit = why, ![i].steps = <<>>, ![i].logging = <<>>,
                              ![i].connected = FALSE]

\* _prepare_start, lines 186-188: the log queue and level are read from
\* self.context.boot_kwargs and handed to setup_queue_logging.  Without a
\* context the read raises and the subprocess ends.
prepare_logging(i) ==
    /\ i \in Procs
    /\ Alive(procs[i])
    /\ StepsDone(i) = 0
    /\ LET c == procs[i].context IN
         IF c = None
           THEN procs' = Exit(i, "crashed")
           ELSE LET kw == boot_kwargs(c)
                    level == IF "log_level" \in DOMAIN kw THEN kw.log_level ELSE INFO
                IN procs' = [procs EXCEPT ![i].steps = Append(@, "setup_queue_logging"),
                                          ![i].logging = <<kw.log_queue, level>>]
    /\ UNCHANGED <<kind, context, running, process, bus, coro, host, calls, hist>>

\* _prepare_start, line 189: self.event_bus.connect_no_wait() returns at once,
\* connected or not.
prepare_connect(i) ==
    /\ i \in Procs
    /\ Alive(procs[i])
    /\ StepsDone(i) = 1
    /\ procs' = [procs EXCEPT ![i].steps = Append(@, "connect_no_wait"),
                              ![i].connected = event_bus(procs[i].context) \in Reachable]
    /\ UNCHANGED <<kind, context, running, process, bus, coro, host, calls, hist>>

\* The broadcast of the subprocess given a BroadcastConfig for the main
\* endpoint.
prepare_broadcast_to_main(i) ==
    /\ i \in Procs
    /\ Alive(procs[i])
    /\ StepsDone(i) = 2
    /\ procs' = [procs EXCEPT ![i].steps = Append(@, "broadcast")]
    /\ bus' = Broadcast(event_bus(procs[i].context),
                        [PluginStartedEvent(procs[i].owner) EXCEPT !.filter = MAIN_EVENTBUS_ENDPOINT])
    /\ UNCHANGED <<kind, context, running, process, coro, host, calls, hist>>

\* _prepare_start, lines 190-192: the broadcast of PluginStartedEvent.
prepare_broadcast(i) ==
    /\ i \in Procs
    /\ Alive(procs[i])
    /\ StepsDone(i) = 2
    /\ procs' = [procs EXCEPT ![i].steps = Append(@, "broadcast")]
    /\ bus' = Broadcast(event_bus(procs[i].context), PluginStartedEvent(procs[i].owner))
    /\ UNCHANGED <<kind, context, running, process, coro, host, calls, hist>>

\* _prepare_start with start() called right after the connect, the broadcast not
\* yet made.
prepare_start_early(i) ==
    /\ i \in Procs
    /\ Alive(procs[i])
    /\ StepsDone(i) \in {2, 3}
    /\ procs' = [procs EXCEPT ![i].steps = Append(@, "start")]
    /\ UNCHANGED <<kind, context, running, process, bus, coro, host, calls, hist>>

\* _prepare_start, line 193: self.start() is called.
prepare_start(i) ==
    /\ i \in Procs
    /\ Alive(procs[i])
    /\ StepsDone(i) = 3
    /\ procs' = [procs EXCEPT ![i].steps = Append(@, "start")]
    /\ UNCHANGED <<kind, context, running, process, bus, coro, host, calls, hist>>

\* start() ends in the subprocess, by returning or by raising, and with it the
\* process; a start() that serves forever takes no such step.
start_ends(i) ==
    /\ i \in Procs
    /\ Alive(procs[i])
    /\ StepsDone(i) = 4
    /\ procs' = Exit(i, "exited")
    /\ UNCHANGED <<kind, context, running, process, bus, coro, host, calls, hist>>

Received(i, sig) == \E k \in 1..Len(procs[i].sigs) : procs[i].sigs[k] = sig

\* The subprocess acts on an interrupt it has received: it ends.  A subprocess
\* that ignores the interrupt takes no such step.
on_interrupt(i) ==
    /\ i \in Procs
    /\ Alive(procs[i])
    /\ Received(i, "interrupt")
    /\ procs' = Exit(i, "exited")
    /\ UNCHANGED <<kind, context, running, process, bus, coro, host, calls, hist>>

\* The forced termination signal ends the subprocess.
on_forced(i) ==
    /\ i \in Procs
    /\ Alive(procs[i])
    /\ Received(i, "forced")
    /\ procs' = Exit(i, "exited")
    /\ UNCHANGED <<kind, context, running, process, bus, coro, host, calls, hist>>

\* stop with the call of kill_process_gracefully left out: the bus connection is
\* stopped and the call returns.
iso_stop_bus_only(p) ==
    /\ Free
    /\ Isolated(p)
    /\ calls < MaxCalls
    /\ calls' = calls + 1
    /\ host' = IF context[p] = None
                 THEN Ended("stop", p, AttributeError, <<>>)
                 ELSE Ended("stop", p, "ok", <<Did("bus_stop", endpoint(context[p]))>>)
    /\ UNCHANGED <<kind, context, running, process, procs, bus, coro, hist>>

\* stop with its two statements exchanged: the subprocess is interrupted first
\* and the bus connection stopped after it.
iso_stop_kill_first(p) ==
    /\ Free
    /\ Isolated(p)
    /\ calls < MaxCalls
    /\ calls' = calls + 1
    /\ IF context[p] = None \/ process[p] = 0
         THEN /\ host' = Ended("stop", p, AttributeError, <<>>)
              /\ procs' = procs
         ELSE /\ procs' = [procs EXCEPT ![process[p]].sigs =
                                   IF procs[process[p]].exit = "alive"
                                     THEN Append(@, "interrupt") ELSE @]
              /\ host' = At("kill_wait", "stop", p,
                            <<Did("interrupt", p), Did("bus_stop", endpoint(context[p]))>>)
    /\ UNCHANGED <<kind, context, running, process, bus, coro, hist>>

\* BaseIsolatedPlugin.stop, line 196: self.context.event_bus.stop()
iso_stop(p) ==
    /\ Free
    /\ Isolated(p)
    /\ calls < MaxCalls
    /\ calls' = calls + 1
    /\ host' = IF context[p] = None
                 THEN Ended("stop", p, AttributeError, <<>>)
                 ELSE At("kill_interrupt", "stop", p, <<Did("bus_stop", endpoint(context[p]))>>)
    /\ UNCHANGED <<kind, context, running, process, procs, bus, coro, hist>>

\* A signal sent to process i reaches it when it is still there.
Signal(i, sig) == IF Alive(procs[i]) THEN [procs EXCEPT ![i].sigs = Append(@, sig)] ELSE procs

\* kill_process_gracefully, first step: the interrupt signal is sent to the
\* process of the handle.
kill_interrupt(p) ==
    /\ host.pc = "kill_interrupt"
    /\ host.p = p
    /\ IF process[p] = 0
         THEN /\ host' = Ended("stop", p, AttributeError, host.trace)
              /\ procs' = procs
         ELSE /\ procs' = Signal(process[p], "interrupt")
              /\ host' = At("kill_wait", "stop", p, Append(host.trace, Did("interrupt", p)))
    /\ UNCHANGED <<kind, context, running, process, bus, coro, calls, hist>>

\* kill_process_gracefully, the end of the grace period: a process that has
\* exited ends the call, one that has not is sent the forced signal.
kill_grace_end(p) ==
    /\ host.pc = "kill_wait"
    /\ host.p = p
    /\ IF Alive(procs[process[p]])
         THEN /\ procs' = Signal(process[p], "forced")
              /\ host' = At("kill_wait_forced", "stop", p, Append(host.trace, Did("forced", p)))
         ELSE /\ procs' = procs
              /\ host' = Ended("stop", p, "ok", host.trace)
    /\ UNCHANGED <<kind, context, running, process, bus, coro, calls, hist>>

\* The end of the wait after the forced signal, with a subprocess that is still
\* there raised to the caller instead of logged.
kill_forced_end_raises(p) ==
    /\ host.pc = "kill_wait_forced"
    /\ host.p = p
    /\ host' = IF procs[process[p]].exit = "alive"
                 THEN Ended("stop", p, "TimeoutError", host.trace)
                 ELSE Ended("stop", p, "ok", host.trace)
    /\ UNCHANGED <<kind, context, running, process, procs, bus, coro, calls, hist>>

\* kill_process_gracefully, the end of the wait after the forced signal: a
\* process still there is logged as a fault, and the call returns either way.
kill_forced_end(p) ==
    /\ host.pc = "kill_wait_forced"
    /\ host.p = p
    /\ host' = Ended("stop", p, "ok",
                     IF Alive(procs[process[p]]) THEN Append(host.trace, Did("log_fault", p))
                                                 ELSE host.trace)
    /\ UNCHANGED <<kind, context, running, process, procs, bus, coro, calls, hist>>

Next ==
    \/ \E p \in Plugins : shutdown_host(p)
    \/ \E p \in Plugins, c \in Contexts : c \in Injectable(p) /\ set_context(p, c)
    \/ \E p \in Plugins : ready(p)
    \/ \E p \in Plugins : read_event_bus(p)
    \/ \E p \in Plugins : boot(p)
    \/ \E p \in Plugins, raises \in BOOLEAN : boot_start(p, raises)
    \/ \E p \in Plugins : boot_broadcast(p)
    \/ \E p \in Plugins : sync_stop(p)
    \/ \E p \in Plugins : async_stop(p)
    \/ \E p \in Plugins : await_stop(p)
    \/ \E p \in Plugins : iso_boot(p)
    \/ \E p \in Plugins : iso_boot_spawn(p)
    \/ \E i \in Procs : prepare_logging(i)
    \/ \E i \in Procs : prepare_connect(i)
    \/ \E i \in Procs : prepare_broadcast(i)
    \/ \E i \in Procs : prepare_start(i)
    \/ \E i \in Procs : start_ends(i)
    \/ \E i \in Procs : on_interrupt(i)
    \/ \E i \in Procs : on_forced(i)
    \/ \E p \in Plugins : iso_stop(p)
    \/ \E p \in Plugins : kill_interrupt(p)
    \/ \E p \in Plugins : kill_grace_end(p)
    \/ \E p \in Plugins : kill_forced_end(p)

Spec == Init /\ [][Next]_vars

\* The scheduling the liveness claims rest on: a host call that has begun goes on
\* (the waits of kill_process_gracefully are bounded), the operating system runs
\* a subprocess it has started, and the forced signal takes effect.
Fairness ==
    /\ \A p \in Plugins :
         /\ WF_vars(kill_interrupt(p))
         /\ WF_vars(kill_grace_end(p))
         /\ WF_vars(kill_forced_end(p))
    /\ \A i \in 1..MaxProcs :
         /\ WF_vars(prepare_logging(i))
         /\ WF_vars(on_forced(i))

FairSpec == Spec /\ Fairness

\* ---------------------------------------------------------------- claims

\* The PluginStartedEvent broadcasts counted on all endpoints for plugin p.
Started(p) == Sum([b \in Buses |-> bus[b][PluginStartedEvent(p)]], Buses)
\* The subprocesses plugin p has spawned.
Spawned(p) == Cardinality({i \in Procs : procs[i].owner = p})
\* The position of the first entry of a call's trace that does what (0: none).
FirstDo(trace, what) ==
    IF \E k \in 1..Len(trace) : trace[k].do = what
      THEN CHOOSE k \in 1..Len(trace) :
             /\ trace[k].do = what
             /\ \A j \in 1..(k - 1) : trace[j].do # what
      ELSE 0
Index(seq, x) ==
    IF \E k \in 1..Len(seq) : seq[k] = x
      THEN CHOOSE k \in 1..Len(seq) : seq[k] = x /\ \A j \in 1..(k - 1) : seq[j] # x
      ELSE 0
BootCompleted(p) == host.pc = "ended" /\ host.op = "boot" /\ host.p = p /\ host.val = "ok"

\* C1 as stated: for every plugin variant with a context, when boot() has
\* completed exactly one PluginStartedEvent per completed boot is on the bus, and
\* no broadcast of it happens before start() has been invoked.
C1_AsStated ==
    /\ \A p \in Plugins :
         (BootCompleted(p) /\ hist[p].injected # None) => Started(p) = hist[p].booted
    /\ \A i \in Procs :
         Index(procs[i].steps, "broadcast") > 0
           => /\ Index(procs[i].steps, "start") > 0
              /\ Index(procs[i].steps, "start") < Index(procs[i].steps, "broadcast")

\* C1, amended: an in-process plugin has exactly one PluginStartedEvent on the
\* bus per boot() that completed, broadcast after start() was invoked in that
\* call.  An isolated boot() broadcasts nothing itself: each subprocess it spawns
\* broadcasts the event at most once, and does so before it invokes start().
C1_Amended ==
    /\ \A p \in Plugins :
         InProcess(p) =>
           /\ Started(p) = hist[p].booted
           /\ (host.op = "boot" /\ host.p = p /\ FirstDo(host.trace, "broadcast") > 0)
                => /\ FirstDo(host.trace, "start") > 0
                   /\ FirstDo(host.trace, "start") < FirstDo(host.trace, "broadcast")
           /\ BootCompleted(p) => FirstDo(host.trace, "broadcast") > 0
    /\ \A p \in Plugins :
         Isolated(p) =>
           /\ Started(p) <= Spawned(p)
           /\ Started(p) >= Cardinality({i \in Procs : procs[i].owner = p /\ StepsDone(i) >= 3})
           /\ (host.op = "boot" /\ host.p = p) => FirstDo(host.trace, "broadcast") = 0
    /\ \A i \in Procs :
         Index(procs[i].steps, "start") > 0
           => /\ Index(procs[i].steps, "broadcast") > 0
              /\ Index(procs[i].steps, "broadcast") < Index(procs[i].steps, "start")

\* C1, witness: an in-process boot has completed with its event on the bus, and a
\* subprocess of an isolated plugin has broadcast and then invoked start().
C1_Witness ==
    /\ \E p \in Plugins : InProcess(p) /\ hist[p].booted = 1 /\ Started(p) = 1
    /\ \E i \in Procs : Alive(procs[i]) /\ StepsDone(i) = 4 /\ Started(procs[i].owner) = 1

\* What a read of event_bus has to give for plugin p: the failure before any
\* set_context, the endpoint of the context injected last after it.
BusOf(p) ==
    CASE hist[p].injected = None -> EventBusNotReady
      [] hist[p].injected = "A" -> "busA"
      [] hist[p].injected = "B" -> "busB"

\* C2: a read of event_bus before set_context fails with EventBusNotReady, a
\* read after set_context gives the injected context's bus, and a read, failed
\* or not, changes nothing of the plugin, so that a failure lasts for its call
\* only.
C2_EventBusReads ==
    /\ [](\A p \in Plugins :
            /\ event_bus(context[p]) = BusOf(p)
            /\ (host.pc = "ended" /\ host.op = "event_bus" /\ host.p = p) => host.val = BusOf(p))
    /\ [][(host'.op = "event_bus" /\ host' # host)
            => UNCHANGED <<kind, context, running, process, procs, bus, coro, calls, hist>>]_vars

\* C2, witness: a read on a plugin with context "B" has returned that context's
\* bus, while a plugin without context is still there to fail its reads.
C2_Witness ==
    /\ host.pc = "ended" /\ host.op = "event_bus"
    /\ hist[host.p].injected = "B" /\ host.val = "busB"
    /\ \E q \in Plugins : hist[q].injected = None /\ event_bus(context[q]) = EventBusNotReady

\* An isolated stop() on plugin p has returned to its caller.
StopReturned(p) ==
    host.pc = "ended" /\ host.op = "stop" /\ host.p = p /\ Isolated(p) /\ host.val = "ok"

Done(trace) == [k \in 1..Len(trace) |-> trace[k].do]
IsPrefix(s, t) == Len(s) <= Len(t) /\ \A k \in 1..Len(s) : s[k] = t[k]

\* C4: an isolated stop() stops the bus connection of the plugin's context
\* first, then sends the interrupt, then waits, and sends the forced signal after
\* the wait only to a subprocess that has not exited; no subprocess gets a forced
\* signal that is not directly preceded by an interrupt, and a stop() whose
\* subprocess exited during the wait returns without a forced signal.
C4_StopOrder ==
    /\ (host.op = "stop" /\ Isolated(host.p)) =>
         /\ IsPrefix(Done(host.trace), <<"bus_stop", "interrupt", "forced", "log_fault">>)
         /\ Len(host.trace) > 0 => host.trace[1].on = endpoint(hist[host.p].injected)
         /\ host.pc = "kill_interrupt" => Done(host.trace) = <<"bus_stop">>
         /\ host.pc = "kill_wait" => Done(host.trace) = <<"bus_stop", "interrupt">>
         /\ host.pc = "kill_wait_forced" => Done(host.trace) = <<"bus_stop", "interrupt", "forced">>
         /\ (host.pc = "ended" /\ host.val = "ok") => Len(host.trace) >= 2
         /\ FirstDo(host.trace, "forced") > 0
              => /\ Len(procs[process[host.p]].sigs) >= 2
                 /\ procs[process[host.p]].sigs[Len(procs[process[host.p]].sigs)] = "forced"
    /\ \A i \in Procs : \A k \in 1..Len(procs[i].sigs) :
         procs[i].sigs[k] = "forced" => (k > 1 /\ procs[i].sigs[k - 1] = "interrupt")

\* C4, witness: stop() has returned after the bus stop and the interrupt alone,
\* the subprocess having exited on the interrupt during the wait.
C4_Witness ==
    \E p \in Plugins :
      /\ StopReturned(p)
      /\ Done(host.trace) = <<"bus_stop", "interrupt">>
      /\ procs[process[p]].sigs = <<"interrupt">>
      /\ procs[process[p]].exit = "exited"

\* The event a shutdown request is on the bus: no plugin, for the main endpoint.
MainShutdownRequest == [type |-> "ShutdownRequest", plugin |-> "-", filter |-> "main"]

\* C5: a call of shutdown_host() by any plugin, whatever that plugin's state,
\* adds exactly one ShutdownRequest filtered to the main endpoint to the bus of
\* the plugin's context and changes nothing else: no other event, no plugin, no
\* subprocess, and not the position of the host, which waits for nothing.  No
\* ShutdownRequest gets on a bus in any other way.
C5_ShutdownHost ==
    /\ [][\A p \in Plugins :
            shutdown_host(p) =>
              /\ bus'[endpoint(hist[p].injected)][MainShutdownRequest]
                   = bus[endpoint(hist[p].injected)][MainShutdownRequest] + 1
              /\ \A b \in Buses, e \in Events :
                   (b # endpoint(hist[p].injected) \/ e # MainShutdownRequest)
                     => bus'[b][e] = bus[b][e]
              /\ UNCHANGED <<kind, context, running, process, procs, coro, host, hist>>]_vars
    /\ [][(\E b \in Buses, e \in Events : e.type = "ShutdownRequest" /\ bus'[b][e] # bus[b][e])
            => \E p \in Plugins : shutdown_host(p)]_vars

\* C5, witness: a running plugin and a plugin that was never booted have each
\* called shutdown_host(), and each bus holds the one request of its plugin.
C5_Witness ==
    /\ bus["busA"][MainShutdownRequest] = 1
    /\ bus["busB"][MainShutdownRequest] = 1
    /\ running["P"] /\ hist["P"].booted = 1 /\ hist["P"].injected = "A"
    /\ ~running["Q"] /\ hist["Q"].injected = "B"
    /\ Sum([b \in Buses |-> Sum([e \in Events |-> bus[b][e]], Events)], Buses)
         = 2 + Started("P")

\* The bus entries that differ between this state and the next.
Changed == {be \in Buses \X Events : bus'[be[1]][be[2]] # bus[be[1]][be[2]]}

StopCompleted(p) ==
    /\ host.pc = "ended" /\ host.p = p /\ host.val = "ok"
    /\ \/ host.op = "stop" /\ kind[p] \in {"sync", "isolated"}
       \/ host.op = "await" /\ kind[p] = "async"

\* C7 as stated: once stop() has completed on a plugin that was given a context
\* and booted, the running flag of the plugin is no longer true.
C7_AsStated ==
    \A p \in Plugins :
      (StopCompleted(p) /\ hist[p].injected # None /\ hist[p].booted >= 1) => ~running[p]

\* C8 as stated: start() is never invoked on a plugin without injected context,
\* neither by boot() in the host nor in a subprocess.
C8_AsStated ==
    /\ (host.op = "boot" /\ FirstDo(host.trace, "start") > 0) => hist[host.p].injected # None
    /\ \A i \in Procs : Index(procs[i].steps, "start") > 0 => procs[i].context # None

\* C9: the boot() of an isolated plugin returns in the step that spawns the
\* subprocess, before the subprocess has taken any step of its own; it waits for
\* nothing (the spawn is always possible once boot() has begun) and it never
\* fails, whether or not the bus can be reached from the subprocess.
C9_BootReturnsAtSpawn ==
    /\ [](\A p \in Plugins :
            /\ (host.pc = "boot_spawn" /\ host.p = p) => ENABLED iso_boot_spawn(p)
            /\ (host.pc = "ended" /\ host.op = "boot" /\ host.p = p /\ Isolated(p))
                 => /\ host.val = "ok"
                    /\ Done(host.trace) = <<"running", "spawn", "log">>)
    /\ [][\A p \in Plugins :
            iso_boot_spawn(p) =>
              /\ host'.pc = "ended" /\ host'.val = "ok"
              /\ Len(procs') = Len(procs) + 1
              /\ process'[p] = Len(procs')
              /\ procs'[Len(procs')].exit = "alive"
              /\ procs'[Len(procs')].steps = <<>>
              /\ ~procs'[Len(procs')].connected
              /\ bus' = bus]_vars

\* C9, witness: the boot() of an isolated plugin whose context's bus cannot be
\* reached has returned, and its subprocess has neither set up logging nor
\* connected, broadcast or called start().
C9_Witness ==
    \E p \in Plugins :
      /\ BootCompleted(p) /\ Isolated(p)
      /\ hist[p].injected = "B" /\ "busB" \notin Reachable
      /\ procs[process[p]].context = "B"
      /\ procs[process[p]].exit = "alive"
      /\ procs[process[p]].steps = <<>>
      /\ Started(p) = 0

\* The steps of the subprocess entry point, in their order in _prepare_start.
EntrySteps == <<"setup_queue_logging", "connect_no_wait", "broadcast", "start">>
\* The log queue and level of each context's boot parameters, the level being
\* the "info" severity where the parameters give none.
LoggingOf(c) == IF c = "A" THEN <<"queueA", 10>> ELSE <<"queueB", 20>>

\* C10: what a subprocess has run of its entry point is an initial part of:
\* queue logging set up with the log queue and level of the boot parameters,
\* bus client connected without waiting, PluginStartedEvent broadcast, start()
\* called.  Each step is in it at most once and none without all those before
\* it; the logging is configured by the first step and the event is on the bus
\* from the third on, at most once for each subprocess spawned.
C10_EntryOrder ==
    /\ \A i \in Procs :
         /\ IsPrefix(procs[i].steps, EntrySteps)
         /\ procs[i].logging = IF StepsDone(i) >= 1 THEN LoggingOf(procs[i].context) ELSE <<>>
         /\ procs[i].connected => StepsDone(i) >= 2
         /\ StepsDone(i) >= 1 => procs[i].context # None
    /\ \A p \in Plugins :
         Isolated(p) =>
           /\ Cardinality({i \in Procs : procs[i].owner = p /\ StepsDone(i) >= 3}) <= Started(p)
           /\ Started(p) <= Spawned(p)

\* C10, witness: a subprocess spawned under context "A" has run all four steps
\* with the queue and level of "A", and one spawned under context "B", whose
\* parameters give no level, has set up logging at the default level.
C10_Witness ==
    \E i, j \in Procs :
      /\ procs[i].context = "A" /\ procs[i].steps = EntrySteps
      /\ procs[i].logging = <<"queueA", 10>> /\ procs[i].connected
      /\ procs[j].context = "B" /\ StepsDone(j) >= 1
      /\ procs[j].logging = <<"queueB", INFO>>

\* boot() has been called on plugin p: a call is under way, or an earlier one
\* got as far as start() or the spawn.
BootCalled(p) ==
    \/ host.op = "boot" /\ host.p = p
    \/ hist[p].starts > 0
    \/ Spawned(p) > 0

\* C11: the running flag of a plugin is false until boot() is called on it and
\* true from the first statement of boot() on: it is true when start() is
\* invoked, in the host and in a subprocess, and true when boot() returns, for
\* an isolated plugin whatever its subprocess has done by then.
C11_RunningFlag ==
    /\ \A p \in Plugins : running[p] <=> BootCalled(p)
    /\ host.op = "boot" =>
         /\ running[host.p]
         /\ Len(host.trace) >= 1 /\ host.trace[1].do = "running"
         /\ FirstDo(host.trace, "start") \in {0, 2}
         /\ FirstDo(host.trace, "spawn") \in {0, 2}
    /\ \A i \in Procs : procs[i].running

\* C11, witness: the boot() of an isolated plugin has returned with the flag
\* true and the subprocess not yet at its first step, while another
\* plugin, given a context and never booted, has the flag false.
C11_Witness ==
    \E p, q \in Plugins :
      /\ BootCompleted(p) /\ Isolated(p) /\ running[p]
      /\ procs[process[p]].steps = <<>> /\ procs[process[p]].exit = "alive"
      /\ hist[q].injected # None /\ ~BootCalled(q) /\ ~running[q]

\* C12: a stop() on an isolated plugin that has a context and was booted ends
\* by returning normally, and it always ends: also when the subprocess does not
\* act on the interrupt, and when it is still there after the forced signal,
\* which is logged and nothing more.
C12_StopNeverRaises ==
    /\ [](\A p \in Plugins :
            (host.pc = "ended" /\ host.op = "stop" /\ host.p = p /\ Isolated(p)
               /\ hist[p].injected # None /\ process[p] # 0)
              => host.val = "ok")
    /\ \A p \in Plugins :
         (host.op = "stop" /\ host.p = p /\ Isolated(p)
            /\ hist[p].injected # None /\ process[p] # 0)
           ~> (host.pc = "ended" /\ host.op = "stop" /\ host.p = p /\ host.val = "ok")

\* C12, witness: stop() has returned normally with the fault logged, the
\* subprocess having got both signals and being still alive.
C12_Witness ==
    \E p \in Plugins :
      /\ StopReturned(p)
      /\ Done(host.trace) = <<"bus_stop", "interrupt", "forced", "log_fault">>
      /\ procs[process[p]].exit = "alive"
      /\ procs[process[p]].sigs = <<"interrupt", "forced">>

\* C13: when start() raises in an in-process boot(), the call ends there with
\* that error: nothing is broadcast in the step or in the call, and the bus
\* holds an event for each boot() that completed and none for this one.  A
\* boot() that ended with any error has broadcast nothing.
C13_StartRaises ==
    /\ [][\A p \in Plugins :
            boot_start(p, TRUE) =>
              /\ host'.pc = "ended" /\ host'.op = "boot" /\ host'.p = p
              /\ host'.val = "StartError"
              /\ bus' = bus]_vars
    /\ [](\A p \in Plugins :
            (host.pc = "ended" /\ host.op = "boot" /\ host.p = p /\ host.val # "ok")
              => /\ FirstDo(host.trace, "broadcast") = 0
                 /\ InProcess(p) => Started(p) = hist[p].booted
                 /\ host.val = "StartError"
                      => /\ Done(host.trace) = <<"running", "start">>
                         /\ Started(p) < hist[p].starts)

\* C13, witness: a plugin was booted with success and booted again with a
\* start() that raised: the second boot() has ended with the error and the bus
\* holds the one event of the first.
C13_Witness ==
    \E p \in Plugins :
      /\ host.pc = "ended" /\ host.op = "boot" /\ host.p = p /\ host.val = "StartError"
      /\ hist[p].starts = 2 /\ hist[p].booted = 1 /\ Started(p) = 1

\* C14 as stated: the running flag of an in-process plugin is true only while
\* a boot() is under way or after one has completed, so that it is false after
\* a boot() that failed.
C14_AsStated ==
    \A p \in Plugins :
      (InProcess(p) /\ running[p])
        => \/ hist[p].booted >= 1
           \/ host.op = "boot" /\ host.p = p /\ host.pc # "ended"

\* The subprocesses of plugin p that were spawned with a context and are alive.
Live(p) == {i \in Procs : procs[i].owner = p /\ procs[i].context # None /\ procs[i].exit = "alive"}

\* C15 as stated: the process handle of an isolated plugin refers to every live
\* subprocess the plugin has spawned, so that at most one of them is alive,
\* and after a stop() that returned without logging a fault none is.
C15_AsStated ==
    \A p \in Plugins :
      Isolated(p) =>
        /\ \A i \in Live(p) : process[p] = i
        /\ Cardinality(Live(p)) <= 1
        /\ (StopReturned(p) /\ FirstDo(host.trace, "log_fault") = 0) => Live(p) = {}

\* C16 as stated: with no context injected, an in-process boot() whose start()
\* returned and an isolated stop() both end with EventBusNotReady.
C16_AsStated ==
    \A p \in Plugins :
      (/\ host.pc = "ended" /\ host.p = p /\ hist[p].injected = None
       /\ \/ host.op = "boot" /\ InProcess(p) /\ host.val # "StartError"
          \/ host.op = "stop" /\ Isolated(p))
        => host.val = EventBusNotReady

\* A step of a lifecycle call the host makes on plugin p.
CallOn(p) ==
    \/ \E c \in Contexts : set_context(p, c)
    \/ ready(p) \/ read_event_bus(p)
    \/ boot(p) \/ (\E raises \in BOOLEAN : boot_start(p, raises)) \/ boot_broadcast(p)
    \/ sync_stop(p) \/ async_stop(p) \/ await_stop(p)
    \/ iso_boot(p) \/ iso_boot_spawn(p)
    \/ iso_stop(p) \/ kill_interrupt(p) \/ kill_grace_end(p) \/ kill_forced_end(p)

\* C17: a step of set_context, boot() or stop() (or of any other call) on one
\* plugin leaves the context, the running flag and the process handle of every
\* other plugin as they were, and the subprocesses of every other plugin too.
C17_OtherPluginsUnchanged ==
    [][\A p, q \in Plugins :
         (p # q /\ CallOn(p)) =>
           /\ context'[q] = context[q]
           /\ running'[q] = running[q]
           /\ process'[q] = process[q]
           /\ \A i \in Procs : procs[i].owner = q => procs'[i] = procs[i]]_vars

\* C17, witness: an isolated plugin was given context "A" and booted, another
\* plugin was then given context "B", booted and stopped, and the first still
\* has its context, its flag and its handle.
C17_Witness ==
    \E p, q \in Plugins :
      /\ p # q /\ Isolated(p)
      /\ context[p] = "A" /\ running[p] /\ process[p] = 1 /\ procs[1].owner = p
      /\ context[q] = "B" /\ running[q] /\ process[q] = 0 /\ hist[q].booted = 1
      /\ StopCompleted(q)

\* The events that may be on a bus: a PluginStartedEvent of a plugin, to every
\* endpoint, and the shutdown request to the main endpoint.
Allowed ==
    {[type |-> "PluginStartedEvent", plugin |-> p, filter |-> "unfiltered"] : p \in Plugins}
      \cup {[type |-> "ShutdownRequest", plugin |-> "-", filter |-> "main"]}

\* C18: every event on a bus is a PluginStartedEvent without filter or a
\* ShutdownRequest filtered to the main endpoint, and a step in which a call
\* ends in an error, a fault is logged or a subprocess ends puts nothing on a
\* bus.
C18_OnlyTwoEvents ==
    /\ [](\A b \in Buses, e \in Events : bus[b][e] > 0 => e \in Allowed)
    /\ [][(/\ host' # host
           /\ host'.pc = "ended"
           /\ \/ host'.val \notin {"ok", "coroutine"} \cup Buses
              \/ FirstDo(host'.trace, "log_fault") > 0)
            => bus' = bus]_vars
    /\ [][(\E i \in Procs : procs'[i].exit # procs[i].exit) => bus' = bus]_vars

\* C18, witness: after a boot() that completed, a shutdown request and a boot()
\* that failed, the buses hold the one PluginStartedEvent and the one
\* ShutdownRequest and nothing else.
C18_Witness ==
    \E p \in Plugins :
      /\ host.pc = "ended" /\ host.op = "boot" /\ host.p = p /\ host.val = "StartError"
      /\ Started(p) = 1
      /\ Sum([b \in Buses |-> bus[b][MainShutdownRequest]], Buses) = 1
      /\ Sum([b \in Buses |-> Sum([e \in Events |-> bus[b][e]], Events)], Buses) = 2

\* How often x is in seq.
Count(seq, x) == Cardinality({k \in 1..Len(seq) : seq[k] = x})

\* C19: an in-process boot() invokes start() once, in the host and before it
\* returns, and spawns nothing; an isolated boot() invokes no start() and
\* broadcasts nothing in the host, and each subprocess it spawns invokes start()
\* at most once.
C19_StartAtLocus ==
    /\ (host.op = "boot" /\ InProcess(host.p)) =>
         /\ Count(Done(host.trace), "start") = IF host.pc = "boot_start" THEN 0 ELSE 1
         /\ Count(Done(host.trace), "spawn") = 0
    /\ (host.op = "boot" /\ Isolated(host.p)) =>
         /\ Count(Done(host.trace), "start") = 0
         /\ Count(Done(host.trace), "broadcast") = 0
         /\ Count(Done(host.trace), "spawn") = IF host.pc = "boot_spawn" THEN 0 ELSE 1
    /\ \A p \in Plugins :
         /\ InProcess(p) => (Spawned(p) = 0 /\ hist[p].starts >= hist[p].booted)
         /\ Isolated(p) => (hist[p].starts = 0 /\ Spawned(p) = hist[p].booted)
    /\ \A i \in Procs :
         /\ Isolated(procs[i].owner)
         /\ Count(procs[i].steps, "start") <= 1
         /\ Count(procs[i].steps, "broadcast") <= 1

\* C19, witness: an in-process plugin has completed a boot() with its one
\* start() made in the host, and the subprocess of an isolated plugin, whose
\* boot() made none, has invoked start().
C19_Witness ==
    \E p, q \in Plugins :
      /\ InProcess(q) /\ BootCompleted(q) /\ hist[q].starts = 1
      /\ Count(Done(host.trace), "start") = 1
      /\ Isolated(p) /\ hist[p].booted = 1 /\ hist[p].starts = 0
      /\ Count(procs[process[p]].steps, "start") = 1

====
